---- MODULE Spec2Model ----
(***************************************************************************)
(* Faceted filtering engine of python_app/app.py: the filter evaluator     *)
(* (apply_filters), the facet counters (count_with_toggled,                *)
(* count_with_included), the links (toggle_filter_url,                     *)
(* set_client_category_url), the query parser (parse_filters), the request *)
(* handler (index) with its quick-pick registration, facet ranking         *)
(* (compute_salience), sorter (index.sort_products) and product cards      *)
(* (pick_summary_keys), the normalizer (augment_product_data and its       *)
(* parsers), and requests handled concurrently.                            *)
(*                                                                         *)
(* Data representation                                                     *)
(*   Python dict        a function whose DOMAIN is the set of keys         *)
(*   Python list        a sequence                                         *)
(*   (name, data)       a pair <<name, data>>                              *)
(*   product name       a sequence of code points, so that str.lower()    *)
(*                      and string ordering are computed, not assumed      *)
(*   attribute value    a string where only equality is used on it (the    *)
(*                      filter engine), a sequence of code points where    *)
(*                      its characters are read (the normalizer)           *)
(*   numeric_filters    a dict that holds a key only when its threshold    *)
(*                      is not None (nf.get() does not tell the two apart) *)
(***************************************************************************)
EXTENDS Integers, Sequences, FiniteSets, TLC

VARIABLES
    products,          \* the category's product list, a list of (name, data)
    filters,           \* the caller's filter set: attr -> list of values
    numeric_filters,   \* the caller's numeric thresholds
    quick_pick_attrs,  \* g.quick_pick_attrs, the registered quick-pick group
    call,              \* the engine call in progress: [op, attr, val]
    result,            \* what apply_filters returned for the caller's filters
    relaxed,           \* what apply_filters returned with one constraint removed
    hyp,               \* the hypothetical filter set f the last call built
    count,             \* the count the last call returned
    filters0,          \* history: the caller's filter set before the first call
    args,              \* request.args of the current request
    page,              \* what index() handed to the template
    clicked,           \* history: the chip whose link led to the current request
    phase,             \* "request": not yet handled, "rendered": page is current
    sort_key,          \* the sort parameter given to sort_products
    sorted,            \* what sort_products returned
    arg,               \* the argument of the normalizer / ranker call in progress
    ret,               \* what that call returned
    reqs,              \* the requests being handled concurrently, each with its locals
    g                  \* flask.g: per application context, the set object it names

vars == <<products, filters, numeric_filters, quick_pick_attrs, call, result,
          relaxed, hyp, count, filters0, args, page, clicked, phase,
          sort_key, sorted, arg, ret, reqs, g>>

-----------------------------------------------------------------------------
(* Bounds of the model *)

\* longest product list
MaxProducts == 2

-----------------------------------------------------------------------------
(* Python built-ins *)

\* dict.get(key, default)
Get(d, k, default) == IF k \in DOMAIN d THEN d[k] ELSE default

\* dict.pop(key, None) as a new dict
Pop(d, k) == [x \in DOMAIN d \ {k} |-> d[x]]

\* d[key] = value as a new dict
Put(d, k, v) == [x \in DOMAIN d \cup {k} |-> IF x = k THEN v ELSE d[x]]

\* value in list
InList(v, list) == \E i \in DOMAIN list : list[i] = v

\* the empty dict, the empty list
Empty == <<>>

\* all sequences over S of length at most n
SeqsUpTo(S, n) == UNION {[1..k -> S] : k \in 0..n}

\* str.lower() on code points: "A".."Z" become "a".."z"
lower(s) == [i \in DOMAIN s |-> IF s[i] >= 65 /\ s[i] <= 90 THEN s[i] + 32 ELSE s[i]]

\* Python's < on strings: lexicographic by code point, a proper prefix first
RECURSIVE StrLess(_, _)
StrLess(a, b) ==
    IF b = <<>> THEN FALSE
    ELSE IF a = <<>> THEN TRUE
    ELSE IF a[1] # b[1] THEN a[1] < b[1]
    ELSE StrLess(Tail(a), Tail(b))

\* Python's < on the key tuples (number, string)
KeyLess(k1, k2) == k1[1] < k2[1] \/ (k1[1] = k2[1] /\ StrLess(k1[2], k2[2]))

-----------------------------------------------------------------------------
(* Attribute names and the keys of the derived numeric fields *)

ModemGroup == "Modem Group"
FiveG      == "5G support"
SimSlots   == "SIM Slots"
Series     == "Series"
RouterMbps == "Router Throughput (Mbps)"
SfMbps     == "SpeedFusion (Mbps)"
UsersMax   == "Users Max"

-----------------------------------------------------------------------------
(* Filter evaluator *)

\* the categorical test with "any" in place of "all"
MatchesAny(data, fs) ==
    \E attr \in DOMAIN fs : InList(Get(data, attr, ""), fs[attr])

\* the categorical test of one product (the inner for loop): every attr of
\* filters has str(data.get(attr, "")) among the selected values; a missing
\* attribute reads as the empty string, and str() of a string is that string
Matches(data, fs) ==
    \A attr \in DOMAIN fs : InList(Get(data, attr, ""), fs[attr])

\* the three numeric list comprehensions, each only when its threshold is given
Numeric(list, nf) ==
    LET s1 == IF "min_router_mbps" \in DOMAIN nf
              THEN SelectSeq(list, LAMBDA p : Get(p[2], RouterMbps, 0) >= nf["min_router_mbps"])
              ELSE list
        s2 == IF "min_speedfusion_mbps" \in DOMAIN nf
              THEN SelectSeq(s1, LAMBDA p : Get(p[2], SfMbps, 0) >= nf["min_speedfusion_mbps"])
              ELSE s1
        s3 == IF "min_users" \in DOMAIN nf
              THEN SelectSeq(s2, LAMBDA p : Get(p[2], UsersMax, 0) >= nf["min_users"])
              ELSE s2
    IN  s3

apply_filters(ps, fs, nf) ==
    LET filtered == IF DOMAIN fs = {} THEN ps
                    ELSE SelectSeq(ps, LAMBDA p : Matches(p[2], fs))
    IN  Numeric(filtered, nf)

-----------------------------------------------------------------------------
(* Query parameters and links *)

\* request.args is a MultiDict: key -> the non-empty list of values supplied
\* for it, in the order supplied; args.get(k) is the first of them, or None
\* (here: NoValue) when the key is absent
NoValue == <<>>

ArgsGet(a, k) == IF k \in DOMAIN a /\ a[k] # <<>> THEN <<a[k][1]>> ELSE NoValue

\* the keys parse_filters skips
ReservedKeys ==
    {"category", "client_category", "short_description", "min_router_mbps",
     "min_speedfusion_mbps", "min_users", "sort", "embed"}

\* parse_filters: one entry per non-reserved key, holding [vals[0]]
parse_filters(a) ==
    [k \in {x \in DOMAIN a : x \notin ReservedKeys /\ a[x] # <<>>} |-> <<a[k][1]>>]

CLIENT_CATEGORIES == {"Essential", "Business", "Enterprise"}

\* build_url, given as the request.args of the request its URL leads to:
\* the preserved keys of the current request that have a non-empty first
\* value, the client category when it is a known one, the category when it
\* is non-empty, and every filter key with its list of values (urlencode
\* with doseq repeats the key per value and emits nothing for an empty list)
build_url(req, category, fs, client_category) ==
    LET preserve == {"min_router_mbps", "min_speedfusion_mbps", "min_users",
                     "sort", "embed", "client_category"}
        qs0 == [k \in {x \in preserve : ArgsGet(req, x) \notin {NoValue, <<"">>}}
                  |-> ArgsGet(req, k)]
        cc1 == IF client_category = NoValue THEN Get(qs0, "client_category", NoValue)
               ELSE client_category
        cc2 == IF cc1 # NoValue /\ cc1[1] \in CLIENT_CATEGORIES THEN cc1 ELSE NoValue
        qs1 == IF cc2 # NoValue THEN Put(qs0, "client_category", cc2)
               ELSE Pop(qs0, "client_category")
        qs2 == IF category \notin {NoValue, <<"">>} THEN Put(qs1, "category", category)
               ELSE qs1
        qs3 == [k \in DOMAIN qs2 \cup DOMAIN fs |-> IF k \in DOMAIN fs THEN fs[k] ELSE qs2[k]]
    IN  [k \in {x \in DOMAIN qs3 : qs3[x] # <<>>} |-> qs3[k]]

-----------------------------------------------------------------------------
(* Facet counter and toggle link *)

\* the loop "for qp_attr in quick_pick_attrs: if qp_attr != attr: f.pop(qp_attr)"
PopGroup(f, attr, qp) == [k \in DOMAIN f \ (qp \ {attr}) |-> f[k]]

\* deepcopy that hands back the caller's own dict
deepcopy_alias(heap, ref) == [heap |-> heap, ref |-> ref]

\* deepcopy(current_filters): the heap with a new dict object "f" equal to the
\* object ref names, and the new object's name
deepcopy(heap, ref) == [heap |-> Put(heap, "f", heap[ref]), ref |-> "f"]

\* the toggle of count_with_toggled without the len(existing) == 1 test
toggle_f_no_len(f, attr, sval, qp) ==
    LET existing == Get(f, attr, <<>>)
    IN  IF InList(sval, existing)
        THEN Pop(f, attr)
        ELSE LET f1 == Put(f, attr, <<sval>>)
             IN  IF attr \in qp THEN PopGroup(f1, attr, qp) ELSE f1

\* lines 442-450 of count_with_toggled, on the dict f
toggle_f(f, attr, sval, qp) ==
    LET existing == Get(f, attr, <<>>)
    IN  IF InList(sval, existing) /\ Len(existing) = 1
        THEN Pop(f, attr)
        ELSE LET f1 == Put(f, attr, <<sval>>)
             IN  IF attr \in qp THEN PopGroup(f1, attr, qp) ELSE f1

\* count_with_toggled on a heap holding the caller's dict "current_filters":
\* the count, the hypothetical dict f, and the caller's dict after the call
count_with_toggled(ps, heap, attr, val, nf, qp) ==
    LET c == deepcopy(heap, "current_filters")
        h == [c.heap EXCEPT ![c.ref] = toggle_f(c.heap[c.ref], attr, val, qp)]
    IN  [n |-> Len(apply_filters(ps, h[c.ref], nf)),
         f |-> h[c.ref],
         caller |-> h["current_filters"]]

\* the inclusion of count_with_included without the quick-pick clearing
include_f_keep_group(f, attr, sval, qp) == Put(f, attr, <<sval>>)

\* lines 462-466 of count_with_included, on the dict f
include_f(f, attr, sval, qp) ==
    LET f1 == Put(f, attr, <<sval>>)
    IN  IF attr \in qp THEN PopGroup(f1, attr, qp) ELSE f1

count_with_included(ps, heap, attr, val, nf, qp) ==
    LET c == deepcopy(heap, "current_filters")
        h == [c.heap EXCEPT ![c.ref] = include_f(c.heap[c.ref], attr, val, qp)]
    IN  [n |-> Len(apply_filters(ps, h[c.ref], nf)),
         f |-> h[c.ref],
         caller |-> h["current_filters"]]

\* toggle_filter_url that leaves the other attributes of the group selected
toggle_filter_url_keep_group(req, attr, sval, qp) ==
    LET category == ArgsGet(req, "category")
        current  == parse_filters(req)
        existing == Get(current, attr, <<>>)
        current1 == IF InList(sval, existing) /\ Len(existing) = 1
                    THEN Pop(current, attr)
                    ELSE Put(current, attr, <<sval>>)
    IN  build_url(req, category, current1, NoValue)

\* toggle_filter_url: the request.args its URL leads to
toggle_filter_url(req, attr, sval, qp) ==
    LET category == ArgsGet(req, "category")
        current  == parse_filters(req)
        existing == Get(current, attr, <<>>)
        current1 == IF InList(sval, existing) /\ Len(existing) = 1
                    THEN Pop(current, attr)
                    ELSE LET c1 == Put(current, attr, <<sval>>)
                         IN  IF attr \in qp THEN PopGroup(c1, attr, qp) ELSE c1
    IN  build_url(req, category, current1, NoValue)

\* set_client_category_url, as the request.args its URL leads to
set_client_category_url(req, client_cat) ==
    build_url(req, ArgsGet(req, "category"), parse_filters(req), <<client_cat>>)

-----------------------------------------------------------------------------
(* Inputs of the filter evaluator *)

\* the name of the i-th product of a generated list: "p1", "p2", ...
NameAt(i) == <<112, 48 + i>>

\* a list of (name, data) from a list of records
WithNames(ds) == [i \in DOMAIN ds |-> <<NameAt(i), ds[i]>>]

NoCall == [op |-> "none", attr |-> "", val |-> ""]

\* the derived numeric fields a record may carry
NumParts ==
    { Empty,
      RouterMbps :> 300,
      (RouterMbps :> 100) @@ (SfMbps :> 300) @@ (UsersMax :> 5) }

\* records: Modem Group always, SIM Slots missing, empty or "2"
FilterRecords ==
    { (ModemGroup :> mg) @@ sim @@ num :
        mg \in {"Single", "Multi"},
        sim \in {Empty, SimSlots :> "", SimSlots :> "2"},
        num \in NumParts }

FilterSetsE ==
    { mg @@ sim :
        mg \in {Empty, ModemGroup :> <<"Single">>, ModemGroup :> <<"Single", "Multi">>},
        sim \in {Empty, SimSlots :> <<"">>, SimSlots :> <<"2">>} }

NumericFilterSets ==
    { Empty,
      "min_router_mbps" :> 0,
      "min_router_mbps" :> 300,
      "min_speedfusion_mbps" :> 300,
      ("min_router_mbps" :> 100) @@ ("min_users" :> 5) }

-----------------------------------------------------------------------------
(* FilterSpec: calls of apply_filters *)

InitFilter ==
    /\ products \in {WithNames(ds) : ds \in SeqsUpTo(FilterRecords, MaxProducts)}
    /\ filters \in FilterSetsE
    /\ numeric_filters \in NumericFilterSets
    /\ quick_pick_attrs = {}
    /\ call = NoCall
    /\ result = Empty
    /\ relaxed = Empty
    /\ hyp = Empty
    /\ count = 0
    /\ filters0 = filters
    /\ args = Empty
    /\ page = Empty
    /\ clicked = Empty
    /\ phase = "none"
    /\ sort_key = ""
    /\ sorted = Empty
    /\ arg = Empty
    /\ ret = Empty
    /\ reqs = Empty
    /\ g = Empty

\* apply_filters(products, filters, numeric_filters)
CallApplyFilters ==
    /\ call.op = "none"
    /\ result' = apply_filters(products, filters, numeric_filters)
    /\ call' = [op |-> "apply_filters", attr |-> "", val |-> ""]
    /\ UNCHANGED <<products, filters, numeric_filters, quick_pick_attrs, relaxed,
                   hyp, count, filters0, args, page, clicked, phase, sort_key, sorted,
                   arg, ret, reqs, g>>

\* apply_filters again on the same products with attr's constraint removed
CallApplyRelaxed(attr) ==
    /\ call.op = "apply_filters"
    /\ attr \in DOMAIN filters
    /\ relaxed' = apply_filters(products, Pop(filters, attr), numeric_filters)
    /\ call' = [op |-> "apply_relaxed", attr |-> attr, val |-> ""]
    /\ UNCHANGED <<products, filters, numeric_filters, quick_pick_attrs, result,
                   hyp, count, filters0, args, page, clicked, phase, sort_key, sorted,
                   arg, ret, reqs, g>>

NextFilter ==
    \/ CallApplyFilters
    \/ \E attr \in {ModemGroup, SimSlots} : CallApplyRelaxed(attr)

FilterSpec == InitFilter /\ [][NextFilter]_vars

\* C1: apply_filters returns at most as many products as it was given, and
\* with any single attribute constraint removed from the filter set (same
\* products, same thresholds) it returns at least as many as before.
C1_Monotonic ==
    /\ call.op \in {"apply_filters", "apply_relaxed"} => Len(result) <= Len(products)
    /\ call.op = "apply_relaxed" =>
          /\ Len(relaxed) <= Len(products)
          /\ Len(relaxed) >= Len(result)

\* a relaxation of a two-attribute filter set that lets more products through
C1_Witness ==
    /\ call.op = "apply_relaxed"
    /\ Cardinality(DOMAIN filters) = 2
    /\ Len(result) > 0
    /\ Len(relaxed) > Len(result)
    /\ Len(result) < Len(products)

\* the products the claim C8 describes, for the state's inputs: those that have
\* a value for every constrained attribute, equal to a selected one, and that
\* meet every threshold present, a missing derived field counting as 0
C8_Passes(p) ==
    /\ \A attr \in DOMAIN filters :
          attr \in DOMAIN p[2] /\ p[2][attr] \in {filters[attr][i] : i \in DOMAIN filters[attr]}
    /\ \A k \in DOMAIN numeric_filters :
          LET field == CASE k = "min_router_mbps" -> RouterMbps
                         [] k = "min_speedfusion_mbps" -> SfMbps
                         [] k = "min_users" -> UsersMax
               value == IF field \in DOMAIN p[2] THEN p[2][field] ELSE 0
          IN  value >= numeric_filters[k]

\* C8: apply_filters returns exactly the products, in input order, that have a
\* selected raw value for every attribute of the filter set and meet every
\* threshold present (a missing derived numeric field counting as 0).
C8_ExactResult ==
    call.op = "apply_filters" => result = SelectSeq(products, C8_Passes)

\* C19: a product that has no value for an attribute the filter set constrains
\* is never in the result of apply_filters, whatever values are selected for
\* the attribute (the empty string of "?attr=" included).
C19_MissingNeverPasses ==
    call.op = "apply_filters" =>
        \A i \in DOMAIN result :
            \A attr \in DOMAIN filters : attr \in DOMAIN result[i][2]

-----------------------------------------------------------------------------
(* CountSpec: calls of the facet counters and of the toggle link, made for  *)
(* one request whose parameters are args.  The caller's filter set is what  *)
(* index() parses from args, or the lists of args as they stand (a caller   *)
(* that passes list-typed selections).                                      *)

MobileRouters == "Mobile Routers"

\* records of the count calls: Modem Group and 5G support always (augmented
\* records carry both), SIM Slots optional
CountRecords ==
    { (ModemGroup :> mg) @@ (FiveG :> g5) @@ sim :
        mg \in {"Single", "Multi"},
        g5 \in {"Yes", "No"},
        sim \in {Empty, SimSlots :> "2"} }

CountArgs ==
    { ("category" :> <<MobileRouters>>) @@ mg @@ g5 @@ sim :
        mg \in {Empty, ModemGroup :> <<"Single">>, ModemGroup :> <<"Multi">>,
                 ModemGroup :> <<"Single", "Multi">>},
        g5 \in {Empty, FiveG :> <<"Yes">>},
        sim \in {Empty, SimSlots :> <<"2">>} }

\* the groups g.quick_pick_attrs is given: none registered, the group while
\* index() is registering, the registered group of "Mobile Routers", and a
\* group of three attributes
CountGroups == {{}, {ModemGroup}, {ModemGroup, FiveG}, {ModemGroup, FiveG, SimSlots}}

\* the chips a count or a link is asked for
CountChips ==
    {<<ModemGroup, "Single">>, <<ModemGroup, "Multi">>, <<FiveG, "Yes">>,
     <<FiveG, "No">>, <<SimSlots, "2">>}

InitCount ==
    /\ products \in {WithNames(ds) : ds \in SeqsUpTo(CountRecords, MaxProducts)}
    /\ args \in CountArgs
    /\ filters \in {parse_filters(args), [k \in DOMAIN args \ ReservedKeys |-> args[k]]}
    /\ numeric_filters = Empty
    /\ quick_pick_attrs \in CountGroups
    /\ call = NoCall
    /\ result = Empty
    /\ relaxed = Empty
    /\ hyp = Empty
    /\ count = 0
    /\ filters0 = filters
    /\ page = Empty
    /\ clicked = Empty
    /\ phase = "none"
    /\ sort_key = ""
    /\ sorted = Empty
    /\ arg = Empty
    /\ ret = Empty
    /\ reqs = Empty
    /\ g = Empty

CallCountWithToggled(attr, val) ==
    /\ call.op = "none"
    /\ LET r == count_with_toggled(products, "current_filters" :> filters, attr, val,
                                    numeric_filters, quick_pick_attrs)
       IN  /\ count' = r.n
           /\ hyp' = r.f
           /\ filters' = r.caller
    /\ call' = [op |-> "count_with_toggled", attr |-> attr, val |-> val]
    /\ UNCHANGED <<products, numeric_filters, quick_pick_attrs, result, relaxed,
                   filters0, args, page, clicked, phase, sort_key, sorted,
                   arg, ret, reqs, g>>

CallCountWithIncluded(attr, val) ==
    /\ call.op = "none"
    /\ LET r == count_with_included(products, "current_filters" :> filters, attr, val,
                                     numeric_filters, quick_pick_attrs)
       IN  /\ count' = r.n
           /\ hyp' = r.f
           /\ filters' = r.caller
    /\ call' = [op |-> "count_with_included", attr |-> attr, val |-> val]
    /\ UNCHANGED <<products, numeric_filters, quick_pick_attrs, result, relaxed,
                   filters0, args, page, clicked, phase, sort_key, sorted,
                   arg, ret, reqs, g>>

\* toggle_filter_url(attr, val) for the request args; hyp is the filter set
\* the request behind the link parses
CallToggleFilterUrl(attr, val) ==
    /\ call.op = "none"
    /\ hyp' = parse_filters(toggle_filter_url(args, attr, val, quick_pick_attrs))
    /\ call' = [op |-> "toggle_filter_url", attr |-> attr, val |-> val]
    /\ UNCHANGED <<products, filters, numeric_filters, quick_pick_attrs, result,
                   relaxed, count, filters0, args, page, clicked, phase, sort_key,
                   sorted,
                   arg, ret, reqs, g>>

\* the call returns; its locals are gone, the caller's objects stay
Return ==
    /\ call.op # "none"
    /\ call' = NoCall
    /\ hyp' = Empty
    /\ count' = 0
    /\ UNCHANGED <<products, filters, numeric_filters, quick_pick_attrs, result,
                   relaxed, filters0, args, page, clicked, phase, sort_key, sorted,
                   arg, ret, reqs, g>>

NextCount ==
    \/ \E c \in CountChips : CallCountWithToggled(c[1], c[2])
    \/ \E c \in CountChips : CallCountWithIncluded(c[1], c[2])
    \/ \E c \in CountChips : CallToggleFilterUrl(c[1], c[2])
    \/ Return

CountSpec == InitCount /\ [][NextCount]_vars

\* the filter set a call starts from: the caller's for the counters, the one
\* parsed from the request for the link
CallBase == IF call.op = "toggle_filter_url" THEN parse_filters(args) ELSE filters0

\* the quick-pick group of the call's attribute: the registered group when
\* the attribute is in it, no group otherwise
CallGroup == IF call.attr \in quick_pick_attrs THEN quick_pick_attrs ELSE {}

\* F with attr's selection set to {v} and every other constraint kept
WithSelection(F, attr, v) ==
    [k \in DOMAIN F \cup {attr} |-> IF k = attr THEN <<v>> ELSE F[k]]

\* C2 as stated: the inclusion count equals the number of products passing F
\* with attr's selection set to {v} and every other constraint of F kept.
C2_InclusionKeepsAll ==
    call.op = "count_with_included" =>
        count = Len(apply_filters(products, WithSelection(filters0, call.attr, call.val),
                                  numeric_filters))

\* C2 amended: the inclusion count equals the number of products passing F
\* with attr's selection set to {v}, the other attributes of attr's registered
\* quick-pick group removed, and every remaining constraint of F kept.
C2_InclusionClearsGroup ==
    call.op = "count_with_included" =>
        LET G  == CallGroup \ {call.attr}
            F1 == WithSelection(filters0, call.attr, call.val)
            F2 == [k \in DOMAIN F1 \ G |-> F1[k]]
        IN  count = Len(apply_filters(products, F2, numeric_filters))

\* an inclusion count for a group attribute while F selects another attribute
\* of the group and an attribute outside it, where clearing changes the count
C2_Witness ==
    /\ call.op = "count_with_included"
    /\ call.attr = ModemGroup
    /\ quick_pick_attrs = {ModemGroup, FiveG}
    /\ FiveG \in DOMAIN filters0
    /\ SimSlots \in DOMAIN filters0
    /\ count > 0
    /\ count # Len(apply_filters(products, WithSelection(filters0, call.attr, call.val),
                                  numeric_filters))

\* C3: with a quick-pick group registered, toggling A=x (A in the group) on a
\* filter set that selects another attribute B of the group gives a
\* hypothetical filter set with no selection for any other attribute of the
\* group, whatever A's current selection is; for the counting toggle and the
\* toggle link.
C3_ToggleClearsGroup ==
    ( /\ call.op \in {"count_with_toggled", "toggle_filter_url"}
      /\ call.attr \in quick_pick_attrs
      /\ \E B \in quick_pick_attrs \ {call.attr} : B \in DOMAIN CallBase )
    => \A B \in quick_pick_attrs \ {call.attr} : B \notin DOMAIN hyp

\* C6: toggling v on attr removes attr's constraint when v is attr's sole
\* selection, and otherwise makes attr's selection exactly {v}; attributes
\* outside attr and its quick-pick group keep their selections; for the
\* counting toggle and the toggle link.
C6_ToggleSemantics ==
    call.op \in {"count_with_toggled", "toggle_filter_url"} =>
        LET F    == CallBase
            sole == call.attr \in DOMAIN F /\ F[call.attr] = <<call.val>>
        IN  /\ sole => call.attr \notin DOMAIN hyp
            /\ ~sole => call.attr \in DOMAIN hyp /\ hyp[call.attr] = <<call.val>>
            /\ \A k \in (DOMAIN F \cup DOMAIN hyp) \ (CallGroup \cup {call.attr}) :
                   k \in DOMAIN F /\ k \in DOMAIN hyp /\ hyp[k] = F[k]

\* a toggle that replaces a two-value selection of attr, with a selected
\* attribute outside the group kept
C6_Witness ==
    /\ call.op = "count_with_toggled"
    /\ call.attr = ModemGroup
    /\ Len(Get(filters0, ModemGroup, <<>>)) = 2
    /\ quick_pick_attrs = {ModemGroup, FiveG}
    /\ SimSlots \in DOMAIN hyp
    /\ FiveG \in DOMAIN filters0

\* C7: after any sequence of count calls the caller's filter set is the one it
\* had before the first call.
C7_CallerUnchanged ==
    filters = filters0

\* a count call that built a hypothetical set different from the caller's
C7_Witness ==
    /\ call.op \in {"count_with_toggled", "count_with_included"}
    /\ hyp # filters0
    /\ filters0 # Empty

-----------------------------------------------------------------------------
(* The request handler *)

\* int(str(v)) of parse_numeric_filters.to_int on the decimal literals the
\* requests of the model carry; on any other string int() raises and to_int
\* returns None
Literals == ("0" :> 0) @@ ("100" :> 100) @@ ("300" :> 300)

\* parse_numeric_filters; a threshold that is None has no key here
parse_numeric_filters(a) ==
    [k \in {x \in {"min_router_mbps", "min_speedfusion_mbps", "min_users"} :
               /\ ArgsGet(a, x) \notin {NoValue, <<"">>}
               /\ ArgsGet(a, x)[1] \in DOMAIN Literals}
       |-> Literals[ArgsGet(a, k)[1]]]

\* the categories of RAW; every category of the modelled catalog lists the
\* same records, so a category differs only in what index() does for it
Categories == {MobileRouters, "Routers"}

\* get_products_in_category for a catalog whose categories list the records ps
get_products_in_category(category, ps) ==
    IF category = NoValue \/ category[1] = "" \/ category[1] \notin Categories
    THEN <<>> ELSE ps

\* the keys build_attribute_index skips
IndexSkippedKeys ==
    {"Citations", "pdf_url", "short_description", RouterMbps, SfMbps, "Users Min",
     UsersMax, "WAN Ports Max", "LAN Ports Max", "_client_price_matrix"}

\* build_attribute_index: attr -> set of values
build_attribute_index(ps) ==
    LET keys == UNION {DOMAIN ps[i][2] : i \in DOMAIN ps} \ IndexSkippedKeys
    IN  [k \in keys |-> {ps[i][2][k] : i \in {j \in DOMAIN ps : k \in DOMAIN ps[j][2]}}]

PREFERRED_ATTR_ORDER ==
    <<"Number of Cellular Modems", ModemGroup, FiveG, "Wi-Fi AP", "Wi-Fi Radio",
      "Number of Ethernet WAN ports", "Number of Ethernet LAN ports",
      "Router Throughput", "SpeedFusion Throughput (no encryption)",
      "SpeedFusion VPN Throughput (No Encryption)", SimSlots,
      "Number of Recommended Users">>

\* (the source writes Wi-Fi with U+2011, a non-breaking hyphen)

\* the code points of the attribute names of the model's catalogs, by which
\* Python compares them
CodePoints ==
    ("Number of Cellular Modems" :> <<78, 117, 109, 98, 101, 114, 32, 111, 102, 32, 67, 101, 108, 108, 117, 108, 97, 114, 32, 77, 111, 100, 101, 109, 115>>) @@
    (ModemGroup :> <<77, 111, 100, 101, 109, 32, 71, 114, 111, 117, 112>>) @@
    (FiveG :> <<53, 71, 32, 115, 117, 112, 112, 111, 114, 116>>) @@
    ("Wi-Fi AP" :> <<87, 105, 8209, 70, 105, 32, 65, 80>>) @@
    ("Wi-Fi Radio" :> <<87, 105, 8209, 70, 105, 32, 82, 97, 100, 105, 111>>) @@
    ("Number of Ethernet WAN ports" :> <<78, 117, 109, 98, 101, 114, 32, 111, 102, 32, 69, 116, 104, 101, 114, 110, 101, 116, 32, 87, 65, 78, 32, 112, 111, 114, 116, 115>>) @@
    ("Number of Ethernet LAN ports" :> <<78, 117, 109, 98, 101, 114, 32, 111, 102, 32, 69, 116, 104, 101, 114, 110, 101, 116, 32, 76, 65, 78, 32, 112, 111, 114, 116, 115>>) @@
    ("Router Throughput" :> <<82, 111, 117, 116, 101, 114, 32, 84, 104, 114, 111, 117, 103, 104, 112, 117, 116>>) @@
    ("SpeedFusion Throughput (no encryption)" :> <<83, 112, 101, 101, 100, 70, 117, 115, 105, 111, 110, 32, 84, 104, 114, 111, 117, 103, 104, 112, 117, 116, 32, 40, 110, 111, 32, 101, 110, 99, 114, 121, 112, 116, 105, 111, 110, 41>>) @@
    ("SpeedFusion VPN Throughput (No Encryption)" :> <<83, 112, 101, 101, 100, 70, 117, 115, 105, 111, 110, 32, 86, 80, 78, 32, 84, 104, 114, 111, 117, 103, 104, 112, 117, 116, 32, 40, 78, 111, 32, 69, 110, 99, 114, 121, 112, 116, 105, 111, 110, 41>>) @@
    (SimSlots :> <<83, 73, 77, 32, 83, 108, 111, 116, 115>>) @@
    ("Number of Recommended Users" :> <<78, 117, 109, 98, 101, 114, 32, 111, 102, 32, 82, 101, 99, 111, 109, 109, 101, 110, 100, 101, 100, 32, 85, 115, 101, 114, 115>>) @@
    (Series :> <<83, 101, 114, 105, 101, 115>>) @@
    ("Weight" :> <<87, 101, 105, 103, 104, 116>>) @@
    ("antenna" :> <<97, 110, 116, 101, 110, 110, 97>>) @@
    ("Dimensions" :> <<68, 105, 109, 101, 110, 115, 105, 111, 110, 115>>)

\* the sort key of compute_salience with the name lower-cased
score_key_lower(attr, distinct) == <<0 - distinct, lower(CodePoints[attr])>>

\* key=lambda x: (-x[1], x[0]) on a score (attr, distinct)
score_key(attr, distinct) == <<0 - distinct, CodePoints[attr]>>

\* scores.sort(...) and the projection to the names: the keys are distinct, so
\* the sorted order does not depend on the order of the dict
RECURSIVE sort_scores(_, _)
sort_scores(attrs, idx) ==
    IF attrs = {} THEN <<>>
    ELSE LET a == CHOOSE x \in attrs :
                      \A y \in attrs \ {x} :
                          KeyLess(score_key(x, Cardinality(idx[x])),
                                  score_key(y, Cardinality(idx[y])))
         IN  <<a>> \o sort_scores(attrs \ {a}, idx)

compute_salience(products_all) ==
    LET idx == build_attribute_index(products_all)
    IN  sort_scores({attr \in DOMAIN idx : ~(Cardinality(idx[attr]) <= 1)}, idx)

\* "Fill the rest by salience": the for loop of lines 585-591 on what is left
\* of salience_order
RECURSIVE salience_fill(_, _)
salience_fill(ordered, rest) ==
    IF rest = <<>> THEN ordered
    ELSE IF Head(rest) = Series THEN salience_fill(ordered, Tail(rest))
    ELSE LET appended == IF ~InList(Head(rest), ordered)
                         THEN Append(ordered, Head(rest)) ELSE ordered
         IN  IF Len(appended) >= 12 THEN appended
             ELSE salience_fill(appended, Tail(rest))

\* the attributes index() shows as facets, in order
top_attrs(idx, salience_order) ==
    salience_fill(SelectSeq(PREFERRED_ATTR_ORDER, LAMBDA a : a \in DOMAIN idx),
                  salience_order)

\* the value chips of one attribute (lines 558-565 and 598-608): each with its
\* inclusion count, taken while g has no quick_pick_attrs yet (getattr gives
\* the empty set)
value_chips(kind, attr, idx, ps, fs, nf) ==
    { [kind |-> kind, attr |-> attr, value |-> v,
       count |-> count_with_included(ps, "current_filters" :> fs, attr, v, nf, {}).n,
       active |-> InList(v, Get(fs, attr, <<>>))] : v \in Get(idx, attr, {}) }

\* index.add_quick on the pair st of quick_pick_attrs and quick_picks so far
add_quick(st, attr, val, idx, ps, fs, nf) ==
    IF attr \notin DOMAIN idx THEN st
    ELSE LET group == st.group \cup {attr}
         IN  [group |-> group,
              picks |-> st.picks \cup
                  {[kind |-> "quick", attr |-> attr, value |-> val,
                    count |-> count_with_included(ps, "current_filters" :> fs, attr, val,
                                                  nf, group).n,
                    active |-> InList(val, Get(fs, attr, <<>>))]}]

\* lines 616-635: the quick picks of "Mobile Routers", registered in order
quick_picks(category, idx, ps, fs, nf) ==
    LET st0 == [group |-> {}, picks |-> {}]
    IN  IF category = <<MobileRouters>>
        THEN LET st1 == add_quick(st0, ModemGroup, "Single", idx, ps, fs, nf)
                 st2 == add_quick(st1, ModemGroup, "Multi", idx, ps, fs, nf)
             IN  add_quick(st2, FiveG, "Yes", idx, ps, fs, nf)
        ELSE st0

-----------------------------------------------------------------------------
(* WebSpec: requests handled by index() and the links followed from its page *)

WebRecords ==
    { (ModemGroup :> mg) @@ (FiveG :> g5) @@ rest :
        mg \in {"Single", "Multi"},
        g5 \in {"Yes", "No"},
        rest \in {Empty, (Series :> "X") @@ (RouterMbps :> 300)} }

\* the URLs a first request may carry
WebArgs ==
    { cat @@ mg @@ g5 @@ ser @@ thr :
        cat \in {Empty, "category" :> <<MobileRouters>>, "category" :> <<"Routers">>},
        mg \in {Empty, ModemGroup :> <<"Single">>, ModemGroup :> <<"Multi">>,
                 ModemGroup :> <<"Single", "Multi">>},
        g5 \in {Empty, FiveG :> <<"Yes">>},
        ser \in {Empty, Series :> <<"X">>},
        thr \in {Empty, "min_router_mbps" :> <<"300">>} }

InitWeb ==
    /\ products \in {WithNames(ds) : ds \in SeqsUpTo(WebRecords, MaxProducts)}
    /\ args \in WebArgs
    /\ filters = Empty
    /\ numeric_filters = Empty
    /\ quick_pick_attrs = {}
    /\ call = NoCall
    /\ result = Empty
    /\ relaxed = Empty
    /\ hyp = Empty
    /\ count = 0
    /\ filters0 = Empty
    /\ page = Empty
    /\ clicked = Empty
    /\ phase = "request"
    /\ sort_key = ""
    /\ sorted = Empty
    /\ arg = Empty
    /\ ret = Empty
    /\ reqs = Empty
    /\ g = Empty

\* index(): the whole handler, up to render_template
HandleRequest ==
    /\ phase = "request"
    /\ LET category == ArgsGet(args, "category")
           fs == parse_filters(args)
           nf == parse_numeric_filters(args)
           products_all == get_products_in_category(category, products)
           products_filtered == IF category \notin {NoValue, <<"">>}
                                THEN apply_filters(products_all, fs, nf) ELSE <<>>
           salience_order == IF category \notin {NoValue, <<"">>}
                             THEN compute_salience(products_all) ELSE <<>>
           idx == IF category \notin {NoValue, <<"">>}
                  THEN build_attribute_index(products_all) ELSE Empty
           shown == top_attrs(idx, salience_order)
           subs == IF category \notin {NoValue, <<"">>}
                   THEN value_chips("subcategory", Series, idx, products_all, fs, nf)
                   ELSE {}
           facets == IF category \notin {NoValue, <<"">>}
                     THEN UNION {value_chips("facet", a, idx, products_all, fs, nf) :
                                   a \in {shown[i] : i \in DOMAIN shown}}
                     ELSE {}
           qp == quick_picks(category, idx, products_all, fs, nf)
       IN  /\ filters' = fs
           /\ numeric_filters' = nf
           /\ result' = products_filtered
           /\ quick_pick_attrs' = qp.group
           /\ page' = [results_count |-> Len(products_filtered),
                       chips |-> subs \cup facets \cup qp.picks]
    /\ phase' = "rendered"
    /\ UNCHANGED <<products, call, relaxed, hyp, count, filters0, args, clicked,
                   sort_key, sorted,
                   arg, ret, reqs, g>>

\* the user follows the toggle link of a chip of the page; the link was
\* rendered by toggle_filter_url with the g of the request that built the
\* page, and the next request starts with a fresh g
FollowToggle ==
    /\ phase = "rendered"
    /\ \E chip \in page.chips :
          /\ args' = toggle_filter_url(args, chip.attr, chip.value, quick_pick_attrs)
          /\ clicked' = chip
    /\ quick_pick_attrs' = {}
    /\ phase' = "request"
    /\ UNCHANGED <<products, filters, numeric_filters, call, result, relaxed, hyp,
                   count, filters0, page, sort_key, sorted,
                   arg, ret, reqs, g>>

NextWeb ==
    \/ HandleRequest
    \/ FollowToggle

WebSpec == InitWeb /\ [][NextWeb]_vars

\* the filter set the claim C4 counts under: attr set to exactly its value and
\* every other attribute of the quick-pick group cleared
C4_GroupFilters(attr, val) ==
    LET F1 == WithSelection(filters, attr, val)
    IN  [k \in DOMAIN F1 \ ({ModemGroup, FiveG} \ {attr}) |-> F1[k]]

\* C4: in "Mobile Routers" the count of every displayed quick-pick entry is the
\* number of products passing the request's filter set with the entry's
\* attribute set to exactly its value and every other attribute of the group
\* {Modem Group, 5G support} cleared.
C4_QuickPickCounts ==
    (phase = "rendered" /\ ArgsGet(args, "category") = <<MobileRouters>>) =>
        \A chip \in page.chips :
            chip.kind = "quick" =>
                chip.count = Len(apply_filters(products,
                                               C4_GroupFilters(chip.attr, chip.value),
                                               numeric_filters))

\* C5: the count displayed on a chip that is not active equals the number of
\* results of the request reached by following the chip's toggle link.
C5_CountIsNextResult ==
    (phase = "rendered" /\ clicked # Empty /\ ~clicked.active) =>
        page.results_count = clicked.count

\* C9: for an attribute supplied with several values the parsed filter set
\* holds exactly one value, the last one supplied.
C9_LastValueWins ==
    phase = "rendered" =>
        \A k \in DOMAIN args \ ReservedKeys :
            /\ k \in DOMAIN filters
            /\ filters[k] = <<args[k][Len(args[k])]>>

-----------------------------------------------------------------------------
(* Sorter *)

\* the key lambdas with the name compared as written, not lower-cased
sort_key_of_case_sensitive(item, key) ==
    CASE key \in {NoValue, <<"">>, <<"name_asc">>} -> <<0, item[1]>>
      [] key = <<"router_desc">>      -> <<0 - Get(item[2], RouterMbps, 0), item[1]>>
      [] key = <<"speedfusion_desc">> -> <<0 - Get(item[2], SfMbps, 0), item[1]>>
      [] key = <<"users_desc">>       -> <<0 - Get(item[2], UsersMax, 0), item[1]>>

\* the key lambdas of sort_products (lines 640-648); the name-only key is
\* given a constant first component
sort_key_of(item, key) ==
    CASE key \in {NoValue, <<"">>, <<"name_asc">>} -> <<0, lower(item[1])>>
      [] key = <<"router_desc">>      -> <<0 - Get(item[2], RouterMbps, 0), lower(item[1])>>
      [] key = <<"speedfusion_desc">> -> <<0 - Get(item[2], SfMbps, 0), lower(item[1])>>
      [] key = <<"users_desc">>       -> <<0 - Get(item[2], UsersMax, 0), lower(item[1])>>

\* one insertion of the stable sort: x goes behind every item whose key is
\* not greater than its own
RECURSIVE InsertSorted(_, _, _)
InsertSorted(list, x, key) ==
    IF list = <<>> THEN <<x>>
    ELSE IF KeyLess(sort_key_of(x, key), sort_key_of(Head(list), key))
         THEN <<x>> \o list
         ELSE <<Head(list)>> \o InsertSorted(Tail(list), x, key)

\* sorted(items, key=...): Python's sort is stable, and the stable ordering of
\* a list by a key is unique; computed here by insertion from the left
RECURSIVE py_sorted(_, _)
py_sorted(items, key) ==
    IF items = <<>> THEN <<>>
    ELSE InsertSorted(py_sorted(SubSeq(items, 1, Len(items) - 1), key),
                      items[Len(items)], key)

\* index.sort_products
sort_products(items, key) ==
    IF key \in {NoValue, <<"">>, <<"router_desc">>, <<"speedfusion_desc">>,
                <<"users_desc">>, <<"name_asc">>}
    THEN py_sorted(items, key)
    ELSE items

-----------------------------------------------------------------------------
(* SortSpec: calls of sort_products *)

\* longest list given to sort_products
MaxSortItems == 3

\* product names "A", "a", "B", "ab", "Ab": pairs that differ only in case,
\* and pairs whose order differs between code points and lower case
SortNames == {<<65>>, <<97>>, <<66>>, <<97, 98>>, <<65, 98>>}

SortData ==
    { Empty,
      RouterMbps :> 0,
      RouterMbps :> 300,
      (RouterMbps :> 100) @@ (SfMbps :> 300) @@ (UsersMax :> 5) }

SortKeys ==
    {NoValue, <<"">>, <<"router_desc">>, <<"speedfusion_desc">>, <<"users_desc">>,
     <<"name_asc">>, <<"price_asc">>}

\* lists of products with distinct names (the names are the keys of a dict)
SortLists ==
    { l \in SeqsUpTo(SortNames \X SortData, MaxSortItems) :
        \A i, j \in DOMAIN l : i # j => l[i][1] # l[j][1] }

InitSort ==
    /\ products \in SortLists
    /\ sort_key \in SortKeys
    /\ sorted = Empty
    /\ filters = Empty
    /\ numeric_filters = Empty
    /\ quick_pick_attrs = {}
    /\ call = NoCall
    /\ result = Empty
    /\ relaxed = Empty
    /\ hyp = Empty
    /\ count = 0
    /\ filters0 = Empty
    /\ args = Empty
    /\ page = Empty
    /\ clicked = Empty
    /\ phase = "none"
    /\ arg = Empty
    /\ ret = Empty
    /\ reqs = Empty
    /\ g = Empty

CallSortProducts ==
    /\ call.op = "none"
    /\ sorted' = sort_products(products, sort_key)
    /\ call' = [op |-> "sort_products", attr |-> "", val |-> ""]
    /\ UNCHANGED <<products, filters, numeric_filters, quick_pick_attrs, result,
                   relaxed, hyp, count, filters0, args, page, clicked, phase, sort_key,
                   arg, ret, reqs, g>>

NextSort == CallSortProducts

SortSpec == InitSort /\ [][NextSort]_vars

\* a is not after b in case-insensitive order
NameLeq(a, b) == ~StrLess(lower(b), lower(a))

\* list l is a rearrangement of list m (the items of m are distinct)
IsPermutation(l, m) ==
    /\ Len(l) = Len(m)
    /\ {l[i] : i \in DOMAIN l} = {m[i] : i \in DOMAIN m}

\* C10: sort_products(P, "router_desc") is a permutation of P, non-increasing
\* in router throughput (missing read as 0), equal throughputs in
\* case-insensitive name order; sort_products(P, absent) is a permutation of
\* P in case-insensitive name order.
C10_SortOrder ==
    call.op = "sort_products" =>
        /\ sort_key = <<"router_desc">> =>
              /\ IsPermutation(sorted, products)
              /\ \A i, j \in DOMAIN sorted :
                    i < j =>
                        LET ri == IF RouterMbps \in DOMAIN sorted[i][2]
                                  THEN sorted[i][2][RouterMbps] ELSE 0
                            rj == IF RouterMbps \in DOMAIN sorted[j][2]
                                  THEN sorted[j][2][RouterMbps] ELSE 0
                        IN  /\ ri >= rj
                            /\ ri = rj => NameLeq(sorted[i][1], sorted[j][1])
        /\ sort_key = NoValue =>
              /\ IsPermutation(sorted, products)
              /\ \A i, j \in DOMAIN sorted :
                    i < j => NameLeq(sorted[i][1], sorted[j][1])

\* a router_desc sort that moved products, with a product lacking the derived
\* field tied with one that has 0 and the tie resolved against code-point order
C10_Witness ==
    /\ call.op = "sort_products"
    /\ sort_key = <<"router_desc">>
    /\ Len(sorted) = 3
    /\ sorted # products
    /\ \E i \in 1..2 :
          /\ Get(sorted[i][2], RouterMbps, 0) = 0
          /\ Get(sorted[i + 1][2], RouterMbps, 0) = 0
          /\ DOMAIN sorted[i][2] # DOMAIN sorted[i + 1][2]
          /\ StrLess(sorted[i + 1][1], sorted[i][1])

-----------------------------------------------------------------------------
(* The normalizer's parsers (_parse_int_prefix, _strip_nbsp,               *)
(* _parse_users_range) and the modem group of augment_product_data.  A raw *)
(* attribute value is a sequence of code points here, so that what the     *)
(* parsers do to its characters is computed.                               *)

\* longest raw value given to a parser
MaxTextLen == 4

\* str.isdigit() on the characters of the model, "0".."9"
isdigit(ch) == ch >= 48 /\ ch <= 57

\* int() of a non-empty string of decimal digits
RECURSIVE int(_)
int(digits) ==
    IF digits = <<>> THEN 0
    ELSE int(SubSeq(digits, 1, Len(digits) - 1)) * 10 + (digits[Len(digits)] - 48)

\* the for loop of _parse_int_prefix leaving at the first character that is
\* not a digit, whether or not a digit was read
RECURSIVE int_prefix_loop_leading(_, _, _)
int_prefix_loop_leading(value, i, num) ==
    IF i > Len(value) THEN num
    ELSE IF isdigit(value[i]) THEN int_prefix_loop_leading(value, i + 1, Append(num, value[i]))
    ELSE num

\* the for loop of _parse_int_prefix from character i on, num collected so far
RECURSIVE int_prefix_loop(_, _, _)
int_prefix_loop(value, i, num) ==
    IF i > Len(value) THEN num
    ELSE IF isdigit(value[i]) THEN int_prefix_loop(value, i + 1, Append(num, value[i]))
    ELSE IF num # <<>> THEN num
    ELSE int_prefix_loop(value, i + 1, num)

_parse_int_prefix(value) ==
    LET num == int_prefix_loop(value, 1, <<>>)
    IN  IF num # <<>> THEN int(num) ELSE 0

\* the string literals of the normalizer
STR_None   == <<78, 111, 110, 101>>
STR_Single == <<83, 105, 110, 103, 108, 101>>
STR_Multi  == <<77, 117, 108, 116, 105>>
STR_Yes    == <<89, 101, 115>>
STR_No     == <<78, 111>>

\* "Derive modem group": modem_raw is out.get("Number of Cellular Modems")
modem_group(modem_raw) ==
    LET n == IF modem_raw # NoValue THEN _parse_int_prefix(modem_raw[1]) ELSE 0
    IN  IF n <= 0 THEN STR_None
        ELSE IF n = 1 THEN STR_Single
        ELSE STR_Multi

\* str.strip(): the white space of the model is the space
RECURSIVE strip(_)
strip(s) ==
    IF s = <<>> THEN s
    ELSE IF s[1] = 32 THEN strip(Tail(s))
    ELSE IF s[Len(s)] = 32 THEN strip(SubSeq(s, 1, Len(s) - 1))
    ELSE s

\* str.replace(old, new) for strings
RECURSIVE replace_str(_, _, _)
replace_str(s, old, new) ==
    IF Len(s) < Len(old) THEN s
    ELSE IF SubSeq(s, 1, Len(old)) = old
         THEN new \o replace_str(SubSeq(s, Len(old) + 1, Len(s)), old, new)
         ELSE <<s[1]>> \o replace_str(Tail(s), old, new)

_strip_nbsp(s) == strip(replace_str(s, <<160>>, <<32>>))

\* str.split(sep) for a single character sep
RECURSIVE split(_, _)
split(s, sep) ==
    IF \A i \in DOMAIN s : s[i] # sep THEN <<s>>
    ELSE LET k == CHOOSE i \in DOMAIN s :
                      s[i] = sep /\ \A j \in 1..(i - 1) : s[j] # sep
         IN  <<SubSeq(s, 1, k - 1)>> \o split(SubSeq(s, k + 1, Len(s)), sep)

\* ''.join(ch for ch in part if ch.isdigit())
digits_of(part) == SelectSeq(part, isdigit)

\* the body of _parse_users_range after the dashes were normalized
users_range_of(s) ==
    LET parts  == split(s, 45)
        withd  == SelectSeq(parts, LAMBDA part : digits_of(part) # <<>>)
        nums   == [i \in DOMAIN withd |-> int(digits_of(withd[i]))]
        digits == digits_of(s)
    IN  IF nums = <<>>
        THEN IF digits # <<>> THEN <<int(digits), int(digits)>> ELSE <<0, 0>>
        ELSE IF Len(nums) = 1 THEN <<nums[1], nums[1]>>
        ELSE <<IF nums[1] <= nums[2] THEN nums[1] ELSE nums[2],
               IF nums[1] <= nums[2] THEN nums[2] ELSE nums[1]>>

\* _parse_users_range that splits at the hyphen without normalizing dashes
_parse_users_range_hyphen_only(s) ==
    IF s = <<>> THEN <<0, 0>> ELSE users_range_of(_strip_nbsp(s))

_parse_users_range(s) ==
    IF s = <<>> THEN <<0, 0>>
    ELSE users_range_of(replace_str(replace_str(_strip_nbsp(s), <<8211>>, <<45>>),
                                    <<8212>>, <<45>>))

\* the raw values: every string of at most MaxTextLen of the characters "0"
\* "1" "2", space, hyphen, en dash, "x", and the longer "2 (5G)", "1" em dash
\* "20", "1" no-break space "2"
Texts ==
    SeqsUpTo({48, 49, 50, 32, 45, 8211, 120}, MaxTextLen) \cup
    { <<50, 32, 40, 53, 71, 41>>, <<49, 8212, 50, 48>>, <<49, 160, 50>> }

InitText ==
    /\ arg \in Texts
    /\ ret = Empty
    /\ call = NoCall
    /\ products = Empty
    /\ filters = Empty
    /\ numeric_filters = Empty
    /\ quick_pick_attrs = {}
    /\ result = Empty
    /\ relaxed = Empty
    /\ hyp = Empty
    /\ count = 0
    /\ filters0 = Empty
    /\ args = Empty
    /\ page = Empty
    /\ clicked = Empty
    /\ phase = "none"
    /\ sort_key = NoValue
    /\ sorted = Empty
    /\ reqs = Empty
    /\ g = Empty

TextFrame ==
    UNCHANGED <<products, filters, numeric_filters, quick_pick_attrs, result,
                relaxed, hyp, count, filters0, args, page, clicked, phase,
                sort_key, sorted, arg, reqs, g>>

Call_parse_int_prefix ==
    /\ call.op = "none"
    /\ call' = [NoCall EXCEPT !.op = "_parse_int_prefix"]
    /\ ret' = _parse_int_prefix(arg)
    /\ TextFrame

\* augment_product_data on a record whose "Number of Cellular Modems" is arg
CallModemGroup ==
    /\ call.op = "none"
    /\ call' = [NoCall EXCEPT !.op = "modem_group"]
    /\ ret' = modem_group(<<arg>>)
    /\ TextFrame

Call_parse_users_range ==
    /\ call.op = "none"
    /\ call' = [NoCall EXCEPT !.op = "_parse_users_range"]
    /\ ret' = _parse_users_range(arg)
    /\ TextFrame

NextText == Call_parse_int_prefix \/ CallModemGroup \/ Call_parse_users_range

TextSpec == InitText /\ [][NextText]_vars

\* the positions of the first run of digits of s: none, or first and last
FirstRun(s) ==
    IF \A i \in DOMAIN s : ~isdigit(s[i]) THEN <<>>
    ELSE LET a == CHOOSE i \in DOMAIN s :
                      isdigit(s[i]) /\ \A j \in 1..(i - 1) : ~isdigit(s[j])
             b == CHOOSE i \in a..Len(s) :
                      /\ \A j \in a..i : isdigit(s[j])
                      /\ i = Len(s) \/ ~isdigit(s[i + 1])
         IN  <<a, b>>

\* the number written by the first run of digits of s, 0 without a digit
FirstRunValue(s) ==
    IF FirstRun(s) = <<>> THEN 0 ELSE int(SubSeq(s, FirstRun(s)[1], FirstRun(s)[2]))

\* the number written by the digits s starts with, 0 when it starts otherwise
LeadingValue(s) ==
    IF s = <<>> \/ ~isdigit(s[1]) THEN 0 ELSE FirstRunValue(s)

GroupOf(n) == IF n = 0 THEN STR_None ELSE IF n = 1 THEN STR_Single ELSE STR_Multi

IsDash(ch) == ch \in {45, 8211, 8212}

\* the parts of s between dashes, as pairs of first and last position, in order
DashParts(s) ==
    LET cuts == <<0>> \o SelectSeq([i \in 1..Len(s) |-> i], LAMBDA i : IsDash(s[i]))
                     \o <<Len(s) + 1>>
    IN  [k \in 1..(Len(cuts) - 1) |-> <<cuts[k] + 1, cuts[k + 1] - 1>>]

\* the numbers of s, one for each part between dashes that has a digit
DashNumbers(s) ==
    LET parts == SelectSeq(DashParts(s),
                           LAMBDA p : \E i \in p[1]..p[2] : isdigit(s[i]))
    IN  [k \in DOMAIN parts |->
            int(SelectSeq(SubSeq(s, parts[k][1], parts[k][2]), isdigit))]

\* the numbers written by the runs of digits of s, in order
RECURSIVE Runs(_)
Runs(s) ==
    IF FirstRun(s) = <<>> THEN <<>>
    ELSE <<FirstRunValue(s)>> \o Runs(SubSeq(s, FirstRun(s)[2] + 1, Len(s)))

Min2(a, b) == IF a <= b THEN a ELSE b
Max2(a, b) == IF a <= b THEN b ELSE a

-----------------------------------------------------------------------------
(* The normalizer: augment_product_data with _yes_no, _parse_mbps and the  *)
(* mock price database.  Raw values and the values it writes are sequences *)
(* of code points, derived numbers are integers.                           *)

\* the keys augment_product_data reads and writes (the source writes the
\* hyphen of "Wi-Fi" and of "256-bit" as U+2011)
NumModems        == "Number of Cellular Modems"
WifiAP           == "Wi-Fi AP"
SfLegacy         == "SpeedFusion VPN Throughput (No Encryption)"
SfCanonical      == "SpeedFusion Throughput (no encryption)"
RouterThroughput == "Router Throughput"
RecommendedUsers == "Number of Recommended Users"
WanPorts         == "Number of Ethernet WAN ports"
LanPorts         == "Number of Ethernet LAN ports"
UsersMin         == "Users Min"
WanPortsMax      == "WAN Ports Max"
LanPortsMax      == "LAN Ports Max"
PRICE_MATRIX_KEY == "_client_price_matrix"

\* sub in s
contains(s, sub) ==
    \E i \in 1..(Len(s) - Len(sub) + 1) : SubSeq(s, i, i + Len(sub) - 1) = sub

\* _yes_no with the two answers exchanged
_yes_no_inverted(val) ==
    LET s == lower(strip(val))
    IN  IF s # <<>> /\ s[1] = 121 THEN STR_No
        ELSE IF s # <<>> /\ s[1] = 110 THEN STR_Yes
        ELSE val

_yes_no(val) ==
    LET s == lower(strip(val))
    IN  IF s # <<>> /\ s[1] = 121 THEN STR_Yes
        ELSE IF s # <<>> /\ s[1] = 110 THEN STR_No
        ELSE val

\* the for loop of _parse_mbps from character i on
RECURSIVE mbps_loop(_, _, _, _)
mbps_loop(s, i, num, dot_seen) ==
    IF i > Len(s) THEN num
    ELSE IF isdigit(s[i]) THEN mbps_loop(s, i + 1, Append(num, s[i]), dot_seen)
    ELSE IF s[i] = 46 /\ ~dot_seen THEN mbps_loop(s, i + 1, Append(num, 46), TRUE)
    ELSE IF num # <<>> THEN num
    ELSE mbps_loop(s, i + 1, num, dot_seen)

RECURSIVE pow10(_)
pow10(d) == IF d = 0 THEN 1 ELSE 10 * pow10(d - 1)

\* float(num) as the fraction n / 10^d; a num without a digit raises, which
\* _parse_mbps turns into 0.0
float(num) ==
    LET ds == digits_of(num)
        k  == IF \E i \in DOMAIN num : num[i] = 46
              THEN CHOOSE i \in DOMAIN num : num[i] = 46 ELSE Len(num) + 1
    IN  IF ds = <<>> THEN [n |-> 0, d |-> 0]
        ELSE [n |-> int(ds), d |-> IF k > Len(num) THEN 0 ELSE Len(num) - k]

\* int(round(n / D)): round half to even
round(n, D) ==
    LET q == n \div D
        r == n % D
    IN  IF 2 * r > D \/ (2 * r = D /\ q % 2 = 1) THEN q + 1 ELSE q

_parse_mbps(s) ==
    IF s = <<>> THEN 0
    ELSE LET t    == _strip_nbsp(s)
             val  == float(mbps_loop(t, 1, <<>>, FALSE))
             low  == lower(t)
             mult == IF \/ contains(low, <<103, 98, 112, 115>>)
                        \/ contains(low, <<103, 98, 105, 116>>)
                        \/ contains(low, <<32, 50, 46, 53, 32, 103>>)
                        \/ contains(low, <<103, 32>>)
                     THEN 1000 ELSE 1
         IN  round(val.n * mult, pow10(val.d))

\* max([_parse_int_prefix(tok) for tok in ...replace('or', '/').split('/')])
ports_max(v) ==
    LET toks == split(replace_str(_strip_nbsp(v), <<111, 114>>, <<47>>), 47)
        ns   == {_parse_int_prefix(toks[i]) : i \in DOMAIN toks}
    IN  CHOOSE n \in ns : \A m \in ns : m <= n

\* the catalog of the model: the order of the categories in RAW and, for each,
\* the names of its products in sorted order
ALL_CATEGORIES == <<"Mobile Routers", "Routers">>
CatalogNames   == <<NameAt(1), NameAt(2)>>

\* _build_mock_price_db: the price table of the entry prod_idx of category cat_idx
price_tiers(cat_idx, prod_idx) ==
    LET base == 800 + cat_idx * 220 + prod_idx * 25
    IN  ("Essential" :> base) @@ ("Business" :> base + 190) @@ ("Enterprise" :> base + 340)

\* PRICE_DB.get(category, {}).get(name)
PRICE_DB_get(category, name) ==
    IF InList(category, ALL_CATEGORIES) /\ InList(name, CatalogNames)
    THEN <<price_tiers((CHOOSE i \in DOMAIN ALL_CATEGORIES : ALL_CATEGORIES[i] = category) - 1,
                       (CHOOSE i \in DOMAIN CatalogNames : CatalogNames[i] = name) - 1)>>
    ELSE NoValue

\* "Infer 5G support from related fields if missing or inconsistent"
infer_5g(out) ==
    LET fields_to_scan == <<Get(out, NumModems, <<>>), Get(out, "Cellular Modem Category options", <<>>),
                            Get(out, "short_description", <<>>)>>
        has_5g == \E i \in DOMAIN fields_to_scan : contains(lower(fields_to_scan[i]), <<53, 103>>)
    IN  IF has_5g /\ (FiveG \notin DOMAIN out \/ out[FiveG] # STR_Yes)
        THEN Put(out, FiveG, STR_Yes)
        ELSE IF ~has_5g /\ (FiveG \notin DOMAIN out \/ strip(out[FiveG]) = <<>>)
        THEN Put(out, FiveG, STR_No)
        ELSE out

\* out[canonical] = out[legacy] when only the legacy key is in out
unify(out, canonical, legacy) ==
    IF canonical \notin DOMAIN out /\ legacy \in DOMAIN out
    THEN Put(out, canonical, out[legacy]) ELSE out

\* "Attach mock pricing matrix for client categories"
attach_price(category, name, out) ==
    LET price_map == PRICE_DB_get(category, name)
    IN  IF price_map # NoValue THEN Put(out, PRICE_MATRIX_KEY, price_map[1]) ELSE out

\* "Derive modem group"
derive_modem_group(out) ==
    Put(out, ModemGroup,
        modem_group(IF NumModems \in DOMAIN out THEN <<out[NumModems]>> ELSE NoValue))

\* out[key] = _yes_no(out[key]) when key is in out
normalize_flag(out, key) ==
    IF key \in DOMAIN out THEN Put(out, key, _yes_no(out[key])) ELSE out

\* out[key] = _parse_mbps(out[from]) when from is in out
derive_mbps(out, from, key) ==
    IF from \in DOMAIN out THEN Put(out, key, _parse_mbps(out[from])) ELSE out

\* lo, hi = _parse_users_range(...); out["Users Min"], out["Users Max"] = lo, hi
derive_users(out) ==
    IF RecommendedUsers \in DOMAIN out
    THEN Put(Put(out, UsersMin, _parse_users_range(out[RecommendedUsers])[1]),
             UsersMax, _parse_users_range(out[RecommendedUsers])[2])
    ELSE out

\* out[key] = max(...) over the tokens of out[from] when from is in out
derive_ports(out, from, key) ==
    IF from \in DOMAIN out THEN Put(out, key, ports_max(out[from])) ELSE out

\* the statements of augment_product_data in order, each on the dict the
\* one before it left (the innermost set is the first statement)
augment_product_data(category, name, pdata) ==
    CHOOSE out \in
        { derive_ports(o11, LanPorts, LanPortsMax) : o11 \in
        { derive_ports(o10, WanPorts, WanPortsMax) : o10 \in
        { derive_users(o9) : o9 \in
        { derive_mbps(o8, SfCanonical, SfMbps) : o8 \in
        { derive_mbps(o7, RouterThroughput, RouterMbps) : o7 \in
        { unify(o6, "SpeedFusion Throughput (256-bit AES)",
                "SpeedFusion VPN Throughput (256-bit AES)") : o6 \in
        { unify(o5, SfCanonical, SfLegacy) : o5 \in
        { infer_5g(o4) : o4 \in
        { normalize_flag(o3, FiveG) : o3 \in
        { normalize_flag(o2, WifiAP) : o2 \in
        { derive_modem_group(o1) : o1 \in
        { attach_price(category, name, o0) : o0 \in {pdata} }}}}}}}}}}}} : TRUE

\* the raw records: for each field, absent or one of a few raw values
RawRecords ==
    { a @@ b @@ c @@ d @@ e @@ f @@ h @@ i :
        \* "Number of Cellular Modems": absent, "1", "2 (5G)"
        a \in { Empty, NumModems :> <<49>>, NumModems :> <<50, 32, 40, 53, 71, 41>> },
        \* "Cellular Modem Category options": absent, "LTE/5G"
        b \in { Empty, "Cellular Modem Category options" :> <<76, 84, 69, 47, 53, 71>> },
        \* "5G support": absent, " ", "yes", "No", "Optional"
        c \in { Empty, FiveG :> <<32>>, FiveG :> <<121, 101, 115>>, FiveG :> <<78, 111>>, FiveG :> <<79, 112, 116, 105, 111, 110, 97, 108>> },
        \* SpeedFusion: no key, the legacy keys "300 Mbps" and "80 Mbps", or
        \* the legacy key with the canonical key "2.5 Gbps"
        d \in { Empty,
                (SfLegacy :> <<51, 48, 48, 32, 77, 98, 112, 115>>) @@
                    ("SpeedFusion VPN Throughput (256-bit AES)" :> <<56, 48, 32, 77, 98, 112, 115>>),
                (SfLegacy :> <<51, 48, 48, 32, 77, 98, 112, 115>>) @@ (SfCanonical :> <<50, 46, 53, 32, 71, 98, 112, 115>>) },
        \* "Wi-Fi AP": absent, " Y", "Optional"
        e \in { Empty, WifiAP :> <<32, 89>>, WifiAP :> <<79, 112, 116, 105, 111, 110, 97, 108>> },
        \* "Router Throughput": absent, "1 Gbps"
        f \in { Empty, RouterThroughput :> <<49, 32, 71, 98, 112, 115>> },
        \* "Number of Recommended Users": absent, "60" en dash "1"
        h \in { Empty, RecommendedUsers :> <<54, 48, 8211, 49>> },
        \* the ports: none, WAN "2 or 4", or LAN "4/8" in a raw record that
        \* already has a Modem Group
        i \in { Empty, WanPorts :> <<50, 32, 111, 114, 32, 52>>, (LanPorts :> <<52, 47, 56>>) @@ (ModemGroup :> STR_Multi) } }

InitAugment ==
    /\ arg \in [category : {"Mobile Routers", "Accessories"}, name : {NameAt(2)},
                pdata : RawRecords]
    /\ ret = Empty
    /\ call = NoCall
    /\ products = Empty
    /\ filters = Empty
    /\ numeric_filters = Empty
    /\ quick_pick_attrs = {}
    /\ result = Empty
    /\ relaxed = Empty
    /\ hyp = Empty
    /\ count = 0
    /\ filters0 = Empty
    /\ args = Empty
    /\ page = Empty
    /\ clicked = Empty
    /\ phase = "none"
    /\ sort_key = NoValue
    /\ sorted = Empty
    /\ reqs = Empty
    /\ g = Empty

\* augment_product_data on the raw record
CallAugment ==
    /\ call.op = "none"
    /\ call' = [NoCall EXCEPT !.op = "augment_product_data"]
    /\ ret' = augment_product_data(arg.category, arg.name, arg.pdata)
    /\ TextFrame

\* augment_product_data on the record the first call returned
CallAugmentAgain ==
    /\ call.op = "augment_product_data"
    /\ call' = [NoCall EXCEPT !.op = "augment_again"]
    /\ arg' = [arg EXCEPT !.pdata = ret]
    /\ ret' = augment_product_data(arg.category, arg.name, ret)
    /\ UNCHANGED <<products, filters, numeric_filters, quick_pick_attrs, result,
                   relaxed, hyp, count, filters0, args, page, clicked, phase,
                   sort_key, sorted, reqs, g>>

NextAugment == CallAugment \/ CallAugmentAgain

AugmentSpec == InitAugment /\ [][NextAugment]_vars

\* C14: augment_product_data is idempotent: augmenting the already-augmented
\* record (arg.pdata of the second call) yields a record with the same keys
\* and the same value for every key.
C14_Idempotent ==
    call.op = "augment_again" =>
        /\ DOMAIN ret = DOMAIN arg.pdata
        /\ \A key \in DOMAIN ret : ret[key] = arg.pdata[key]

\* a second augmentation of a record whose first augmentation normalized a
\* flag, inferred 5G support, unified the SpeedFusion key and derived numbers
C14_Witness ==
    /\ call.op = "augment_again"
    /\ {WifiAP, FiveG, SfCanonical, SfLegacy, SfMbps, RouterMbps, UsersMin,
        UsersMax, WanPortsMax, PRICE_MATRIX_KEY} \subseteq DOMAIN ret
    /\ ret[WifiAP] = STR_Yes
    /\ ret[FiveG] = STR_Yes
    /\ ret[ModemGroup] = STR_Multi
    /\ ret[SfCanonical] = ret[SfLegacy]
    /\ ret[SfMbps] = 300
    /\ ret[RouterMbps] = 1000
    /\ ret[UsersMin] = 1 /\ ret[UsersMax] = 60
    /\ ret[WanPortsMax] = 4
    /\ PRICE_MATRIX_KEY \in DOMAIN ret

-----------------------------------------------------------------------------
(* FacetSpec: compute_salience and the facet list of index() on catalogs   *)
(* whose attributes have chosen numbers of distinct values                 *)

\* most distinct values of an attribute, and the number of products
MaxDistinct == 3

\* the value a product has when it is the i-th distinct one: "v1", "v2", ...
ValueAt(i) == <<118, 48 + i>>

\* attributes outside the preferred ones
ExtraAttrs == {Series, "Weight", "antenna", "Dimensions"}

\* a catalog in which the attributes of present have level distinct values
\* and each extra attribute e has extra[e] (0: no product has it)
FacetCatalog(present, level, extra) ==
    LET attrs == present \cup {e \in ExtraAttrs : extra[e] > 0}
        n(a)  == IF a \in present THEN level ELSE extra[a]
    IN  WithNames([i \in 1..MaxDistinct |->
                      [a \in attrs |-> ValueAt(IF i <= n(a) THEN i ELSE n(a))]])

InitFacet ==
    \* the preferred attributes of a catalog: the first k or the last k
    /\ products \in { FacetCatalog(present, level, extra) :
                        present \in
                            { {PREFERRED_ATTR_ORDER[i] : i \in 1..k} :
                                k \in 0..Len(PREFERRED_ATTR_ORDER) } \cup
                            { {PREFERRED_ATTR_ORDER[i] :
                                  i \in k..Len(PREFERRED_ATTR_ORDER)} :
                                k \in 1..Len(PREFERRED_ATTR_ORDER) },
                        level \in 1..2,
                        extra \in [ExtraAttrs -> 0..MaxDistinct] }
    /\ arg = Empty
    /\ ret = Empty
    /\ call = NoCall
    /\ filters = Empty
    /\ numeric_filters = Empty
    /\ quick_pick_attrs = {}
    /\ result = Empty
    /\ relaxed = Empty
    /\ hyp = Empty
    /\ count = 0
    /\ filters0 = Empty
    /\ args = Empty
    /\ page = Empty
    /\ clicked = Empty
    /\ phase = "none"
    /\ sort_key = NoValue
    /\ sorted = Empty
    /\ reqs = Empty
    /\ g = Empty

Call_compute_salience ==
    /\ call.op = "none"
    /\ call' = [NoCall EXCEPT !.op = "compute_salience"]
    /\ ret' = compute_salience(products)
    /\ TextFrame

\* lines 545-593 of index() for a request of the catalog's category
Call_top_attrs ==
    /\ call.op = "none"
    /\ call' = [NoCall EXCEPT !.op = "top_attrs"]
    /\ ret' = top_attrs(build_attribute_index(products), compute_salience(products))
    /\ TextFrame

NextFacet == Call_compute_salience \/ Call_top_attrs

FacetSpec == InitFacet /\ [][NextFacet]_vars

\* the number of distinct values of attr in the catalog
Distinct(attr) == Cardinality(build_attribute_index(products)[attr])

\* the list holds exactly the attributes of the index with more than one
\* distinct value, each once, by descending count
SalienceByCount(list) ==
    /\ {list[i] : i \in DOMAIN list} =
          {a \in DOMAIN build_attribute_index(products) : Distinct(a) > 1}
    /\ \A i, j \in DOMAIN list : i < j =>
          /\ list[i] # list[j]
          /\ Distinct(list[i]) >= Distinct(list[j])

\* C12 as stated: compute_salience returns exactly the attributes with more
\* than one distinct value, by descending distinct-value count, attributes of
\* equal count in ascending order of the lower-cased name.
C12_CaseInsensitive ==
    call.op = "compute_salience" =>
        /\ SalienceByCount(ret)
        /\ \A i, j \in DOMAIN ret :
              (i < j /\ Distinct(ret[i]) = Distinct(ret[j])) =>
                  StrLess(lower(CodePoints[ret[i]]), lower(CodePoints[ret[j]]))

\* C12 amended: compute_salience returns exactly the attributes with more
\* than one distinct value, by descending distinct-value count, attributes of
\* equal count in ascending code-point order of the name as written (upper
\* case before lower case).
C12_CodePointOrder ==
    call.op = "compute_salience" =>
        /\ SalienceByCount(ret)
        /\ \A i, j \in DOMAIN ret :
              (i < j /\ Distinct(ret[i]) = Distinct(ret[j])) =>
                  StrLess(CodePoints[ret[i]], CodePoints[ret[j]])

\* a ranking with two count levels in which "Weight" and "antenna" tie and
\* "Weight" comes first
C12_Witness ==
    /\ call.op = "compute_salience"
    /\ \E i, j \in DOMAIN ret :
          /\ i < j
          /\ ret[i] = "Weight" /\ ret[j] = "antenna"
          /\ Distinct("Weight") = Distinct("antenna")
    /\ \E i, j \in DOMAIN ret : Distinct(ret[i]) > Distinct(ret[j])

\* the preferred attributes the catalog has, in priority order
PreferredPresent ==
    SelectSeq(PREFERRED_ATTR_ORDER,
              LAMBDA a : a \in DOMAIN build_attribute_index(products))

\* the salience ranking without Series and without the preferred attributes
SalientRest ==
    SelectSeq(compute_salience(products),
              LAMBDA a : a # Series /\ ~InList(a, PreferredPresent))

\* C11: the facet list is the preferred attributes the category has, in
\* priority order, followed by salience-ranked remaining attributes, and it
\* is never longer than the maximum facet count, 12.
C11_FacetList ==
    call.op = "top_attrs" =>
        /\ Len(ret) <= 12
        /\ \E k \in 0..Len(SalientRest) :
              ret = PreferredPresent \o SubSeq(SalientRest, 1, k)

-----------------------------------------------------------------------------
(* SummarySpec: pick_summary_keys and the summary of a product card.  A    *)
(* record is given with the order of its keys, which the fallback loop of  *)
(* pick_summary_keys follows.                                              *)

\* for k in ks: if k in pdata and k not in ordered: ordered.append(k)
RECURSIVE append_present(_, _, _)
append_present(ordered, ks, pdata) ==
    IF ks = <<>> THEN ordered
    ELSE append_present(IF Head(ks) \in DOMAIN pdata /\ ~InList(Head(ks), ordered)
                        THEN Append(ordered, Head(ks)) ELSE ordered,
                        Tail(ks), pdata)

\* the fallback loop over pdata.keys(), left once ordered has 8 keys
RECURSIVE fill_to_eight(_, _)
fill_to_eight(ordered, ks) ==
    IF ks = <<>> THEN ordered
    ELSE IF Head(ks) \in {"Citations", "pdf_url", "short_description"}
         THEN fill_to_eight(ordered, Tail(ks))
    ELSE LET appended == IF ~InList(Head(ks), ordered)
                         THEN Append(ordered, Head(ks)) ELSE ordered
         IN  IF Len(appended) >= 8 THEN appended
             ELSE fill_to_eight(appended, Tail(ks))

\* pick_summary_keys up to its return statement; keys is pdata.keys()
summary_keys_ordered(pdata, keys) ==
    LET sf_key   == IF SfCanonical \in DOMAIN pdata THEN <<SfCanonical>>
                    ELSE IF SfLegacy \in DOMAIN pdata THEN <<SfLegacy>>
                    ELSE <<>>
        priority == <<WanPorts, LanPorts, WifiAP, "Wi-Fi Radio">> \o sf_key \o
                    <<RouterThroughput, RecommendedUsers>>
        extras   == <<FiveG, NumModems, ModemGroup, SimSlots, Series>>
        listed   == append_present(append_present(<<>>, priority, pdata), extras, pdata)
    IN  IF Len(listed) < 8 THEN fill_to_eight(listed, keys) ELSE listed

\* pick_summary_keys returning ordered instead of ordered[:8]
pick_summary_keys_unsliced(pdata, keys) == summary_keys_ordered(pdata, keys)

pick_summary_keys(pdata, keys) ==
    LET ordered == summary_keys_ordered(pdata, keys)
    IN  SubSeq(ordered, 1, IF Len(ordered) < 8 THEN Len(ordered) ELSE 8)

\* str(n) for n >= 0
RECURSIVE str_int(_)
str_int(n) == IF n < 10 THEN <<48 + n>> ELSE Append(str_int(n \div 10), 48 + (n % 10))

\* format_price of an integer price below a million: f"${n:,}"
format_price(value) ==
    LET ds == str_int(value)
    IN  IF Len(ds) <= 3 THEN <<36>> \o ds
        ELSE <<36>> \o SubSeq(ds, 1, Len(ds) - 3) \o <<44>> \o SubSeq(ds, Len(ds) - 2, Len(ds))

\* lines 539-541: the client category of the request, the first one when the
\* parameter is absent or unknown
client_category_of(param) ==
    IF param # NoValue /\ param[1] \in CLIENT_CATEGORIES THEN param[1] ELSE "Essential"

\* lines 656-668: the summary of one product card
summary_pairs(pdata, keys, client_category) ==
    LET price_map == Get(pdata, PRICE_MATRIX_KEY, Empty)
        picked    == pick_summary_keys(pdata, keys)
        pairs     == [i \in DOMAIN picked |-> <<picked[i], pdata[picked[i]]>>]
    IN  IF client_category \in DOMAIN price_map
        THEN <<<< <<"Price", client_category>>, format_price(price_map[client_category]) >>>>
             \o pairs
        ELSE pairs

\* the keys a record of the model may have besides Modem Group and 5G support
\* (which augment_product_data always sets), in the order of the record
SummaryKeyOrder ==
    <<WanPorts, WifiAP, SfLegacy, RouterThroughput, RecommendedUsers, NumModems,
      Series, "Citations", "Weight", SfCanonical, PRICE_MATRIX_KEY, ModemGroup, FiveG>>

InitSummary ==
    \* the records: every choice of the optional keys, each with a value
    /\ arg \in { [pdata |-> pd,
                  keys |-> SelectSeq(SummaryKeyOrder, LAMBDA k : k \in DOMAIN pd),
                  client_category |-> cc] :
                    pd \in { [k \in ks \cup {ModemGroup, FiveG} |->
                                IF k = PRICE_MATRIX_KEY THEN price_tiers(0, 1)
                                ELSE ValueAt(1)] :
                              ks \in SUBSET ({SummaryKeyOrder[i] : i \in DOMAIN SummaryKeyOrder}
                                                \ {ModemGroup, FiveG}) },
                    cc \in {NoValue, <<"Business">>, <<"Gold">>} }
    /\ ret = Empty
    /\ call = NoCall
    /\ products = Empty
    /\ filters = Empty
    /\ numeric_filters = Empty
    /\ quick_pick_attrs = {}
    /\ result = Empty
    /\ relaxed = Empty
    /\ hyp = Empty
    /\ count = 0
    /\ filters0 = Empty
    /\ args = Empty
    /\ page = Empty
    /\ clicked = Empty
    /\ phase = "none"
    /\ sort_key = NoValue
    /\ sorted = Empty
    /\ reqs = Empty
    /\ g = Empty

Call_pick_summary_keys ==
    /\ call.op = "none"
    /\ call' = [NoCall EXCEPT !.op = "pick_summary_keys"]
    /\ ret' = pick_summary_keys(arg.pdata, arg.keys)
    /\ TextFrame

\* the body of the product card loop of index() for the record
BuildProductCard ==
    /\ call.op = "none"
    /\ call' = [NoCall EXCEPT !.op = "product_card"]
    /\ ret' = summary_pairs(arg.pdata, arg.keys, client_category_of(arg.client_category))
    /\ TextFrame

NextSummary == Call_pick_summary_keys \/ BuildProductCard

SummarySpec == InitSummary /\ [][NextSummary]_vars

\* C13 as stated: the summary of every product card has at most 8 pairs,
\* whatever the record and the client tier, priced products included.
C13_AtMostEight ==
    call.op = "product_card" => Len(ret) <= 8

\* the record of the card has a price for the client tier of the request
Priced ==
    /\ PRICE_MATRIX_KEY \in DOMAIN arg.pdata
    /\ client_category_of(arg.client_category) \in DOMAIN arg.pdata[PRICE_MATRIX_KEY]

\* the pairs are pairs of distinct keys of the record with their values
AttributePairs(pairs) ==
    /\ \A i \in DOMAIN pairs :
          /\ pairs[i][1] \in DOMAIN arg.pdata
          /\ pairs[i][2] = arg.pdata[pairs[i][1]]
    /\ \A i, j \in DOMAIN pairs : i # j => pairs[i][1] # pairs[j][1]

\* C13 amended: the summary of every product card is at most 8 attribute
\* pairs, preceded by one price pair when the record has a price for the
\* client tier: at most 9 pairs for a priced product, at most 8 otherwise.
C13_EightAfterPrice ==
    call.op = "product_card" =>
        IF Priced
        THEN /\ Len(ret) >= 1 /\ Len(ret) <= 9
             /\ ret[1][1] = <<"Price", client_category_of(arg.client_category)>>
             /\ AttributePairs(Tail(ret))
        ELSE /\ Len(ret) <= 8
             /\ AttributePairs(ret)

\* a priced product with 8 attribute pairs behind its price pair "$1,015"
C13_Witness ==
    /\ call.op = "product_card"
    /\ Priced
    /\ Len(ret) = 9
    /\ ret[1] = << <<"Price", "Business">>, <<36, 49, 44, 48, 49, 53>> >>

-----------------------------------------------------------------------------
(* NavSpec: a visit that starts in "Mobile Routers" without filters and    *)
(* follows the toggle links and the client-tier links of the pages         *)

InitNav ==
    \* the records of the visit: each with a Modem Group, a 5G support and a Series
    /\ products \in {WithNames(ds) :
                        ds \in SeqsUpTo({r \in WebRecords : Series \in DOMAIN r},
                                        MaxProducts)}
    /\ args = ("category" :> <<MobileRouters>>)
    /\ filters = Empty
    /\ numeric_filters = Empty
    /\ quick_pick_attrs = {}
    /\ call = NoCall
    /\ result = Empty
    /\ relaxed = Empty
    /\ hyp = Empty
    /\ count = 0
    /\ filters0 = Empty
    /\ page = Empty
    /\ clicked = Empty
    /\ phase = "request"
    /\ sort_key = ""
    /\ sorted = Empty
    /\ arg = Empty
    /\ ret = Empty
    /\ reqs = Empty
    /\ g = Empty

\* the user follows the link of a client tier of the page
FollowClientTier ==
    /\ phase = "rendered"
    /\ \E client_cat \in CLIENT_CATEGORIES :
          args' = set_client_category_url(args, client_cat)
    /\ quick_pick_attrs' = {}
    /\ phase' = "request"
    /\ UNCHANGED <<products, filters, numeric_filters, call, result, relaxed, hyp,
                   count, filters0, page, clicked, sort_key, sorted,
                   arg, ret, reqs, g>>

NextNav ==
    \/ HandleRequest
    \/ FollowToggle
    \/ FollowClientTier

NavSpec == InitNav /\ [][NextNav]_vars

\* C16: from an empty filter set in "Mobile Routers", along toggle links and
\* client-tier links, the filter set of every request selects at most one
\* attribute of the quick-pick group {Modem Group, 5G support}.
C16_OneOfGroup ==
    /\ ~({ModemGroup, FiveG} \subseteq DOMAIN parse_filters(args))
    /\ phase = "rendered" => ~({ModemGroup, FiveG} \subseteq DOMAIN filters)

\* the toggle link of a 5G chip was followed from a page of a client tier on
\* which Modem Group was selected (filters is still that page's filter set):
\* the request it leads to selects 5G support and no longer Modem Group
C16_Witness ==
    /\ phase = "request"
    /\ clicked # Empty
    /\ clicked.attr = FiveG
    /\ ModemGroup \in DOMAIN filters
    /\ "client_category" \in DOMAIN args
    /\ FiveG \in DOMAIN parse_filters(args)
    /\ ModemGroup \notin DOMAIN parse_filters(args)

-----------------------------------------------------------------------------
(* ConcSpec: requests handled concurrently (app.run(threaded=True)), each  *)
(* in its own application context, over the shared catalog RAW.  A request *)
(* advances one statement group of index() at a step, so the steps of the  *)
(* requests interleave.                                                    *)

\* requests a worker handles one after the other
MaxRounds == 2

\* one application context that every request would share
g_context_shared(r, nth) == <<0, 0>>

\* the application context flask.g resolves to while worker r handles its
\* nth request: the context pushed for that request
g_context(r, nth) == <<r, nth>>

\* RAW: category -> list of (name, raw record); "1", "2 (5G)", " Y", "1 Gbps"
RawCatalog ==
    ("Mobile Routers" :> << <<NameAt(1), NumModems :> <<49>>>>,
                            <<NameAt(2), (NumModems :> <<50, 32, 40, 53, 71, 41>>) @@ (WifiAP :> <<32, 89>>)>> >>) @@
    ("Routers" :> << <<NameAt(1), RouterThroughput :> <<49, 32, 71, 98, 112, 115>>>> >>)

\* get_products_in_category on a heap of dict objects: the dicts of RAW
\* ("raw"), the dict(data) copies ("copy") and the out dicts that
\* augment_product_data builds by dict(pdata) and writes to ("out").  Gives
\* the list it returns and RAW as the heap holds it afterwards.
get_products_in_category_heap(raw, category) ==
    IF category \notin DOMAIN raw THEN [raw |-> raw, list |-> <<>>]
    ELSE LET items == raw[category]
             heap0 == [o \in {<<"raw", i>> : i \in DOMAIN items} |-> items[o[2]][2]]
             heap1 == [o \in DOMAIN heap0 \cup {<<"copy", i>> : i \in DOMAIN items} |->
                          IF o[1] = "copy" THEN heap0[<<"raw", o[2]>>] ELSE heap0[o]]
             heap2 == [o \in DOMAIN heap1 \cup {<<"out", i>> : i \in DOMAIN items} |->
                          IF o[1] = "out"
                          THEN augment_product_data(category, items[o[2]][1],
                                                    heap1[<<"copy", o[2]>>])
                          ELSE heap1[o]]
         IN  [raw  |-> [raw EXCEPT ![category] =
                           [i \in DOMAIN items |-> <<items[i][1], heap2[<<"raw", i>>]>>]],
              list |-> [i \in DOMAIN items |-> <<items[i][1], heap2[<<"out", i>>]>>]]

\* a request that has not been handled yet
NewRequest(category, nth) ==
    [pc |-> "load", category |-> category, round |-> nth, attr_index_all |-> {},
     quick_pick_attrs |-> {}, k |-> 1, registered |-> {}, seen |-> {}]

\* getattr(g, "quick_pick_attrs", set()) as worker r sees it: the local set of
\* the request whose set object g names in r's context
g_quick_pick_attrs(r) ==
    LET ctx == g_context(r, reqs[r].round)
    IN  IF ctx \in DOMAIN g THEN reqs[g[ctx]].quick_pick_attrs ELSE {}

InitConc ==
    /\ products = RawCatalog
    \* two workers handle requests at the same time
    /\ reqs \in [{1, 2} -> {NewRequest(c, 1) : c \in DOMAIN RawCatalog}]
    /\ g = Empty
    /\ arg = Empty
    /\ ret = Empty
    /\ call = NoCall
    /\ filters = Empty
    /\ numeric_filters = Empty
    /\ quick_pick_attrs = {}
    /\ result = Empty
    /\ relaxed = Empty
    /\ hyp = Empty
    /\ count = 0
    /\ filters0 = Empty
    /\ args = Empty
    /\ page = Empty
    /\ clicked = Empty
    /\ phase = "none"
    /\ sort_key = NoValue
    /\ sorted = Empty

ConcFrame ==
    UNCHANGED <<filters, numeric_filters, quick_pick_attrs, call, result, relaxed,
                hyp, count, filters0, args, page, clicked, phase, sort_key, sorted,
                arg, ret>>

\* lines 545-552: products_all, salience, products_filtered, attr_index_all
Load(r) ==
    /\ reqs[r].pc = "load"
    /\ LET got == get_products_in_category_heap(products, reqs[r].category)
       IN  /\ products' = got.raw
           /\ reqs' = [reqs EXCEPT ![r].pc = "counts",
                                   ![r].attr_index_all =
                                       DOMAIN build_attribute_index(got.list)]
    /\ UNCHANGED g
    /\ ConcFrame

\* lines 554-612: the subcategory and facet counts, each a count_with_included
\* that reads the group from g
FacetCounts(r) ==
    /\ reqs[r].pc = "counts"
    /\ reqs' = [reqs EXCEPT ![r].pc = "register",
                            ![r].seen = @ \cup g_quick_pick_attrs(r)]
    /\ UNCHANGED <<products, g>>
    /\ ConcFrame

\* lines 617-618: quick_pick_attrs = set(); g.quick_pick_attrs = quick_pick_attrs
RegisterGroup(r) ==
    /\ reqs[r].pc = "register"
    /\ reqs' = [reqs EXCEPT ![r].pc = IF reqs[r].category = "Mobile Routers"
                                      THEN "add_quick" ELSE "render",
                            ![r].quick_pick_attrs = {}]
    /\ g' = Put(g, g_context(r, reqs[r].round), r)
    /\ UNCHANGED products
    /\ ConcFrame

\* one of the three add_quick calls: the attribute joins the request's set,
\* then the count of the entry reads the group from g
AddQuick(r) ==
    /\ reqs[r].pc = "add_quick"
    /\ LET calls == <<ModemGroup, ModemGroup, FiveG>>
           attr  == calls[reqs[r].k]
           known == attr \in reqs[r].attr_index_all
           added == [reqs EXCEPT ![r].quick_pick_attrs =
                                     IF known THEN @ \cup {attr} ELSE @,
                                 ![r].registered = IF known THEN @ \cup {attr} ELSE @]
           ctx   == g_context(r, reqs[r].round)
           read  == IF ~known THEN {}
                    ELSE IF ctx \in DOMAIN g THEN added[g[ctx]].quick_pick_attrs ELSE {}
       IN  reqs' = [added EXCEPT ![r].seen = @ \cup read,
                                 ![r].k = @ + 1,
                                 ![r].pc = IF reqs[r].k = Len(calls)
                                           THEN "render" ELSE "add_quick"]
    /\ UNCHANGED <<products, g>>
    /\ ConcFrame

\* render_template: the toggle links of the page, each a toggle_filter_url
\* that reads the group from g
Render(r) ==
    /\ reqs[r].pc = "render"
    /\ reqs' = [reqs EXCEPT ![r].pc = "done",
                            ![r].seen = @ \cup g_quick_pick_attrs(r)]
    /\ UNCHANGED <<products, g>>
    /\ ConcFrame

\* the response is sent and the application context of the request popped
Finish(r) ==
    /\ reqs[r].pc = "done"
    /\ reqs' = [reqs EXCEPT ![r].pc = "idle"]
    /\ g' = Pop(g, g_context(r, reqs[r].round))
    /\ UNCHANGED products
    /\ ConcFrame

\* the worker takes its next request, with new locals
NextRequest(r) ==
    /\ reqs[r].pc = "idle"
    /\ reqs[r].round < MaxRounds
    /\ \E c \in DOMAIN RawCatalog :
          reqs' = [reqs EXCEPT ![r] = NewRequest(c, reqs[r].round + 1)]
    /\ UNCHANGED <<products, g>>
    /\ ConcFrame

NextConc ==
    \E r \in DOMAIN reqs :
        \/ Load(r)
        \/ FacetCounts(r)
        \/ RegisterGroup(r)
        \/ AddQuick(r)
        \/ Render(r)
        \/ Finish(r)
        \/ NextRequest(r)

ConcSpec == InitConc /\ [][NextConc]_vars

\* C15: under any interleaving, every group a request's counts and toggle
\* links have read holds only attributes that request has registered (none
\* before it registers one), and the shared catalog is as it was loaded.
C15_GroupIsOwn ==
    /\ \A r \in DOMAIN reqs : reqs[r].seen \subseteq reqs[r].registered
    /\ DOMAIN reqs # {} => products = RawCatalog

\* a "Mobile Routers" request has registered both attributes and rendered its
\* links with them, and a "Routers" request handled at the same time (both
\* contexts are still pushed) has rendered its links with an empty group
C15_Witness ==
    \E r, q \in DOMAIN reqs :
        /\ reqs[r].category = "Mobile Routers"
        /\ reqs[r].pc = "done"
        /\ reqs[r].seen = {ModemGroup, FiveG}
        /\ reqs[q].category = "Routers"
        /\ reqs[q].pc = "done"
        /\ reqs[q].round = reqs[r].round
        /\ reqs[q].seen = {}
        /\ DOMAIN g = {g_context(r, reqs[r].round), g_context(q, reqs[q].round)}

====
